---- MODULE Spec2Model ----
(***************************************************************************)
(* Lowering core of cairo_native.                                          *)
(*                                                                         *)
(*  - sierra2mlir/src/libfuncs/mod.rs : the dispatch pass process_libfuncs *)
(*    and its builders (constants, struct_construct, dup, store_temp,      *)
(*    felt252 binary operations, upcast).  Specification Spec.             *)
(*  - src/libfuncs/enum.rs : the code emitted by build_init (enum_init)    *)
(*    and build_match (enum_match), executed on a byte-addressed buffer.   *)
(*    Specification SpecEnum.                                              *)
(***************************************************************************)
EXTENDS Integers, Sequences, FiniteSets, TLC

VARIABLES
    \* ---- process_libfuncs (mod.rs) ----
    idx,            \* number of libfunc declarations the loop has taken so far
    name,           \* generic id of the declaration taken last (mod.rs:26)
    status,         \* "running" | "ok" (returned Ok(())) | "failed" (Err or panic)
    error,          \* kind of the failure, "none" while there is none
    functions,      \* Storage.functions : normalized name -> FunctionDef
    felt_consts,    \* Storage.felt_consts : normalized name -> literal
    u8_consts, u16_consts, u32_consts, u64_consts, u128_consts,
    module,         \* operations appended to self.module.body(), in order
    \* ---- code emitted by enum.rs, executed ----
    variants,       \* payload types of the enum, in declaration order
    pc,             \* where the execution of the emitted code is
    block,          \* index of the variant block entered by the switch, -1 if none
    arg,            \* entry.argument(0) of the libfunc being executed
    buffer,         \* the alloca'd buffer (op5 of build_init, op1 of build_match)
    successor,      \* index of the successor branched to by helper.br, -1 if none
    passed,         \* values passed to that successor
    init_index,     \* info.index of the enum_init that built the value, -1 if none
    init_payload    \* payload given to that enum_init

dispatchVars == <<idx, name, status, error, functions, felt_consts, u8_consts,
                  u16_consts, u32_consts, u64_consts, u128_consts, module>>
enumVars == <<variants, pc, block, arg, buffer, successor, passed, init_index, init_payload>>
vars == <<dispatchVars, enumVars>>

(***************************************************************************)
(* Bounds of the model.                                                    *)
(***************************************************************************)
MaxDecls == 2       \* libfunc declarations of one program
FeltWidth == 4      \* bit width of the (scaled down) felt type
MaxVariants == 3    \* variants of one enum

(***************************************************************************)
(* Small helpers.                                                          *)
(***************************************************************************)
RECURSIVE Pow2(_)
Pow2(n) == IF n = 0 THEN 1 ELSE 2 * Pow2(n - 1)

Max(a, b) == IF a >= b THEN a ELSE b

\* HashMap::insert : the new value replaces an existing one under the same key.
Insert(map, k, v) == [x \in DOMAIN map \cup {k} |-> IF x = k THEN v ELSE map[x]]

EmptyMap == [x \in {} |-> 0]

(***************************************************************************)
(* Types.  An MLIR type is an integer type of a width or an LLVM struct of *)
(* field types; a SierraType wraps it (compiler.rs, SierraType::Simple and *)
(* SierraType::Struct).                                                    *)
(***************************************************************************)
IntTy(w) == [kind |-> "int", width |-> w, fields |-> <<>>]
StructTy(fs) == [kind |-> "struct", width |-> 0, fields |-> fs]

Simple(ty) == [kind |-> "Simple", ty |-> ty, field_types |-> <<>>]
Struct(fts) == [kind |-> "Struct",
                ty |-> StructTy([i \in 1..Len(fts) |-> fts[i].ty]),
                field_types |-> fts]

\* SierraType::get_type
get_type(sty) == sty.ty
\* Type::get_width : Some(width) for an integer type, None otherwise
get_width(ty) == IF ty.kind = "int" THEN <<ty.width>> ELSE <<>>
\* SierraType::get_field_types : None for a Simple type
get_field_types(sty) ==
    IF sty.kind = "Struct" THEN <<[i \in 1..Len(sty.field_types) |-> sty.field_types[i].ty]>>
    ELSE <<>>
\* SierraType::get_field_sierra_types
get_field_sierra_types(sty) == IF sty.kind = "Struct" THEN <<sty.field_types>> ELSE <<>>

\* Compiler::felt_type and Compiler::double_felt_type
felt_type == IntTy(FeltWidth)
double_felt_type == IntTy(2 * FeltWidth)
\* Compiler::prime_constant : the field's prime, scaled down with the felt
\* type; it is below half the range of felt_type, as the 252-bit prime is
\* in the 256-bit felt type.
Prime == 7

\* Storage.types, filled by the type pass before process_libfuncs runs.
TypeIds == {"u8", "u16", "u64", "felt252", "Pair", "Mixed"}
types ==
    [t \in TypeIds |->
        CASE t = "u8" -> Simple(IntTy(8))
          [] t = "u16" -> Simple(IntTy(16))
          [] t = "u64" -> Simple(IntTy(64))
          [] t = "felt252" -> Simple(felt_type)
          [] t = "Pair" -> Struct(<<Simple(felt_type), Simple(felt_type)>>)
          [] t = "Mixed" -> Struct(<<Simple(IntTy(8)), Simple(IntTy(16))>>)]

(***************************************************************************)
(* Libfunc declarations (cairo_lang_sierra::program::LibfuncDeclaration).  *)
(***************************************************************************)
Value(v) == [kind |-> "Value", value |-> v, id |-> ""]
Type(t) == [kind |-> "Type", value |-> 0, id |-> t]
UserFunc == [kind |-> "UserFunc", value |-> 0, id |-> ""]

\* Generic argument lists the declarations are drawn from: of literals, of
\* one type, of two types.
ValueArgLists == {<<>>, <<Value(7)>>, <<Value(-300)>>, <<Value(7), Value(9)>>, <<Type("u8")>>}
TypeArgLists ==
    {<<>>, <<Value(7)>>, <<UserFunc>>, <<Type("u8")>>, <<Type("Pair")>>, <<Type("Mixed")>>,
     <<Type("missing")>>}
CastArgLists ==
    {<<Type("u8")>>, <<Type("u8"), Type("u64")>>, <<Type("u8"), Type("u8")>>,
     <<Type("u16"), Type("u8")>>, <<Type("u8"), Type("Mixed")>>, <<Type("u8"), Value(7)>>,
     <<Type("missing"), Type("u8")>>}

NoOpIds == {"revoke_ap_tracking", "disable_ap_tracking", "drop"}
RecognizedIds ==
    NoOpIds \cup
    {"felt252_const", "felt252_add", "felt252_sub", "felt252_mul", "dup",
     "struct_construct", "store_temp", "rename", "u8_const", "u16_const",
     "u32_const", "u64_const", "u128_const", "upcast"}
\* Generic ids the match of process_libfuncs has no arm for.
UnrecognizedIds == {"felt252_div", "enum_match"}
GenericIds == RecognizedIds \cup UnrecognizedIds

\* Debug names of the declarations (every declaration carries one: the
\* driver replaces the ids by debug names before the pass).
DebugNames == {"core::f", "g"}

\* The generic argument lists tried with a generic id.
ArgListsOf(generic_id) ==
    IF generic_id \in {"felt252_const", "u8_const", "u16_const", "u32_const", "u64_const",
                       "u128_const"}
    THEN ValueArgLists
    ELSE IF generic_id \in {"struct_construct", "dup", "store_temp", "rename"}
    THEN TypeArgLists
    ELSE IF generic_id = "upcast" THEN CastArgLists
    ELSE {<<>>, <<Type("u8")>>}

\* The declarations with a generic id among ids.
DeclsOf(ids) ==
    UNION {[generic_id : {id}, debug_name : DebugNames, generic_args : ArgListsOf(id)] :
            id \in ids}

\* Compiler::normalize_func_name : runs of ':' and '-' become '_'.
normalize_func_name(debug_name) ==
    CASE debug_name = "core::f" -> "core_f"
      [] debug_name = "g" -> "g"

\* BigInt::to_string : the decimal digits, most significant first, after a
\* '-' for a negative value.
DigitChar(d) ==
    CASE d = 0 -> "0" [] d = 1 -> "1" [] d = 2 -> "2" [] d = 3 -> "3" [] d = 4 -> "4"
      [] d = 5 -> "5" [] d = 6 -> "6" [] d = 7 -> "7" [] d = 8 -> "8" [] d = 9 -> "9"
RECURSIVE Digits(_)
Digits(n) == IF n < 10 THEN <<DigitChar(n)>> ELSE Append(Digits(n \div 10), DigitChar(n % 10))
to_string(v) == IF v < 0 THEN <<"-">> \o Digits(-v) ELSE Digits(v)

(***************************************************************************)
(* The emitted IR.  A callable is a func op: its symbol name, its function *)
(* type and the operations of its single block.  Values are numbered: the  *)
(* block arguments are 1..n, and every operation's result takes the next   *)
(* number.  An operation names its operands a and b by number, carries the *)
(* immediates k and k2, and, for the return, the numbers rs it returns.    *)
(***************************************************************************)
Op(op, a, b, k, k2) == [op |-> op, a |-> a, b |-> b, k |-> k, k2 |-> k2, rs |-> <<>>]

\* Compiler::op_return
op_return(rs) == [op |-> "func.return", a |-> 0, b |-> 0, k |-> 0, k2 |-> 0, rs |-> rs]
\* Compiler::op_llvm_struct : an undefined struct value of n fields
op_llvm_struct(n) == Op("llvm.mlir.undef", 0, 0, n, 0)
\* Compiler::op_llvm_insertvalue(block, index, struct_value, value, ty)
op_llvm_insertvalue(index, struct_value, value) == Op("llvm.insertvalue", struct_value, value, index, 0)
\* Compiler::op_sext / op_zext (block, value, to) on a value of width from
op_sext(value, from, to) == Op("arith.extsi", value, 0, from, to)
op_zext(value, from, to) == Op("arith.extui", value, 0, from, to)
\* Compiler::op_add / op_sub / op_mul on two values of width w
op_add(lhs, rhs, w) == Op("arith.addi", lhs, rhs, w, 0)
op_sub(lhs, rhs, w) == Op("arith.subi", lhs, rhs, w, 0)
op_mul(lhs, rhs, w) == Op("arith.muli", lhs, rhs, w, 0)
\* Compiler::op_felt_modulo
op_felt_modulo(value) == Op("felt_modulo", value, 0, 2 * FeltWidth, FeltWidth)

\* statements::create_fn_signature and the format! of the function type
create_fn_signature(inputs, results) == [inputs |-> inputs, results |-> results]
\* Compiler::op_func(name, function_type, regions, ..)
op_func(id, function_type, ops) == [sym_name |-> id, function_type |-> function_type, body |-> ops]

\* Marks a field of an undefined struct that nothing was inserted into; it
\* is no value of any integer type.
Undef == -1

\* The value of an integer of width w read as a signed number.
Signed(x, w) == IF x >= Pow2(w - 1) THEN x - Pow2(w) ELSE x

\* Result of one operation, given the values numbered so far.
OpResult(ins, regs) ==
    CASE ins.op = "llvm.mlir.undef" -> [i \in 1..ins.k |-> Undef]
      [] ins.op = "llvm.insertvalue" -> [regs[ins.a] EXCEPT ![ins.k + 1] = regs[ins.b]]
      [] ins.op = "arith.extsi" ->
            IF regs[ins.a] >= Pow2(ins.k - 1)
            THEN regs[ins.a] + Pow2(ins.k2) - Pow2(ins.k) ELSE regs[ins.a]
      [] ins.op = "arith.extui" -> regs[ins.a] % Pow2(ins.k)
      [] ins.op = "arith.addi" -> (regs[ins.a] + regs[ins.b]) % Pow2(ins.k)
      [] ins.op = "arith.subi" -> (regs[ins.a] - regs[ins.b]) % Pow2(ins.k)
      [] ins.op = "arith.muli" -> (regs[ins.a] * regs[ins.b]) % Pow2(ins.k)
      [] ins.op = "felt_modulo" -> (Signed(regs[ins.a], ins.k) % Prime) % Pow2(ins.k2)

\* Runs the block of a callable from operation i on; yields the returned values.
RECURSIVE Exec(_, _, _)
Exec(body, i, regs) ==
    IF body[i].op = "func.return"
    THEN [j \in 1..Len(body[i].rs) |-> regs[body[i].rs[j]]]
    ELSE Exec(body, i + 1, Append(regs, OpResult(body[i], regs)))

\* Calls an emitted callable on the given arguments.
Call(func, args) == Exec(func.body, 1, args)

(***************************************************************************)
(* process_libfuncs and its builders (sierra2mlir/src/libfuncs/mod.rs).    *)
(* One step of the loop takes the next declaration and runs the arm of the *)
(* match its generic id selects.  A builder that returns Err (the `?` of   *)
(* its call) or panics (todo!, unimplemented!, expect, unwrap, an index    *)
(* out of range) ends the pass; the failure is recorded by its kind:       *)
(*   InvalidGenericArgs : wrong number or kind of generic arguments,       *)
(*   UnresolvedType     : a type id Storage.types does not hold,           *)
(*   Unimplemented      : BinaryOp::Div.                                   *)
(***************************************************************************)
FunctionDef(args, return_types) == [args |-> args, return_types |-> return_types]

constVars == <<felt_consts, u8_consts, u16_consts, u32_consts, u64_consts, u128_consts>>
tableVars == <<functions, constVars, module>>

\* The loop takes the next declaration, whose generic id is among ids.
Take(func_decl, ids) ==
    /\ status = "running"
    /\ idx < MaxDecls
    /\ func_decl.generic_id \in ids
    /\ idx' = idx + 1
    /\ name' = func_decl.generic_id
    /\ UNCHANGED enumVars

\* The arm completed: the loop goes on.
Continue == status' = "running" /\ error' = "none"

\* The builder failed before it changed anything: the pass ends.
\* (Variant: the failure is recorded but the loop goes on.)
AbortSwallowed(kind) == status' = "running" /\ error' = kind /\ UNCHANGED tableVars
Abort(kind) == status' = "failed" /\ error' = kind /\ UNCHANGED tableVars

\* generic_args[k] read as GenericArg::Type and looked up in Storage.types
\* (mod.rs:123-138, 199-213, 261-275, 475-488).
type_arg(func_decl, k) ==
    IF Len(func_decl.generic_args) < k
    THEN [err |-> "InvalidGenericArgs", ty |-> Simple(IntTy(0))]
    ELSE IF func_decl.generic_args[k].kind # "Type"
    THEN [err |-> "InvalidGenericArgs", ty |-> Simple(IntTy(0))]
    ELSE IF func_decl.generic_args[k].id \notin DOMAIN types
    THEN [err |-> "UnresolvedType", ty |-> Simple(IntTy(0))]
    ELSE [err |-> "none", ty |-> types[func_decl.generic_args[k].id]]

\* The callable is registered and appended to the module (mod.rs:170-183).
Emit(id, func, def) ==
    /\ functions' = Insert(functions, id, def)
    /\ module' = Append(module, func)
    /\ UNCHANGED constVars

\* "revoke_ap_tracking" | "disable_ap_tracking" | "drop" => continue
no_op(func_decl) ==
    /\ Take(func_decl, NoOpIds)
    /\ Continue
    /\ UNCHANGED tableVars

\* _ => debug!(?func_decl, "unhandled libfunc")
\* (Variant: the catch-all arm fails the pass.)
unhandled_fails(func_decl) ==
    /\ Take(func_decl, GenericIds \ RecognizedIds)
    /\ Abort("Unimplemented")
unhandled(func_decl) ==
    /\ Take(func_decl, GenericIds \ RecognizedIds)
    /\ Continue
    /\ UNCHANGED tableVars

create_libfunc_felt_const(func_decl) ==
    /\ Take(func_decl, {"felt252_const"})
    /\ IF Len(func_decl.generic_args) = 0 \/ func_decl.generic_args[1].kind # "Value"
       THEN Abort("InvalidGenericArgs")
       ELSE /\ Continue
            /\ felt_consts' = Insert(felt_consts, normalize_func_name(func_decl.debug_name),
                                     to_string(func_decl.generic_args[1].value))
            /\ UNCHANGED <<functions, module, u8_consts, u16_consts, u32_consts,
                           u64_consts, u128_consts>>

\* match generic_args.as_slice() { [GenericArg::Value(value)] => .., _ => todo!() }
uint_const_arg(func_decl) ==
    IF Len(func_decl.generic_args) = 1 /\ func_decl.generic_args[1].kind = "Value"
    THEN <<to_string(func_decl.generic_args[1].value)>>
    ELSE <<>>

create_libfunc_u8_const(func_decl) ==
    /\ Take(func_decl, {"u8_const"})
    /\ IF uint_const_arg(func_decl) = <<>>
       THEN Abort("InvalidGenericArgs")
       ELSE /\ Continue
            /\ u8_consts' = Insert(u8_consts, normalize_func_name(func_decl.debug_name),
                                   uint_const_arg(func_decl)[1])
            /\ UNCHANGED <<functions, module, felt_consts, u16_consts, u32_consts,
                           u64_consts, u128_consts>>

create_libfunc_u16_const(func_decl) ==
    /\ Take(func_decl, {"u16_const"})
    /\ IF uint_const_arg(func_decl) = <<>>
       THEN Abort("InvalidGenericArgs")
       ELSE /\ Continue
            /\ u16_consts' = Insert(u16_consts, normalize_func_name(func_decl.debug_name),
                                    uint_const_arg(func_decl)[1])
            /\ UNCHANGED <<functions, module, felt_consts, u8_consts, u32_consts,
                           u64_consts, u128_consts>>

create_libfunc_u32_const(func_decl) ==
    /\ Take(func_decl, {"u32_const"})
    /\ IF uint_const_arg(func_decl) = <<>>
       THEN Abort("InvalidGenericArgs")
       ELSE /\ Continue
            /\ u32_consts' = Insert(u32_consts, normalize_func_name(func_decl.debug_name),
                                    uint_const_arg(func_decl)[1])
            /\ UNCHANGED <<functions, module, felt_consts, u8_consts, u16_consts,
                           u64_consts, u128_consts>>

create_libfunc_u64_const(func_decl) ==
    /\ Take(func_decl, {"u64_const"})
    /\ IF uint_const_arg(func_decl) = <<>>
       THEN Abort("InvalidGenericArgs")
       ELSE /\ Continue
            /\ u64_consts' = Insert(u64_consts, normalize_func_name(func_decl.debug_name),
                                    uint_const_arg(func_decl)[1])
            /\ UNCHANGED <<functions, module, felt_consts, u8_consts, u16_consts,
                           u32_consts, u128_consts>>

create_libfunc_u128_const(func_decl) ==
    /\ Take(func_decl, {"u128_const"})
    /\ IF uint_const_arg(func_decl) = <<>>
       THEN Abort("InvalidGenericArgs")
       ELSE /\ Continue
            /\ u128_consts' = Insert(u128_consts, normalize_func_name(func_decl.debug_name),
                                     uint_const_arg(func_decl)[1])
            /\ UNCHANGED <<functions, module, felt_consts, u8_consts, u16_consts,
                           u32_consts, u64_consts>>

\* One turn of the loop `for i in 0..block.argument_count()` of
\* create_libfunc_struct_construct (i from 0): argument i, numbered i + 1, is
\* inserted at index i into the struct value the previous operation produced.
\* (Variant: the fields are filled in reverse order.)
insert_field_reversed(i, n) == op_llvm_insertvalue(n - 1 - i, n + 1 + i, i + 1)
insert_field(i, n) == op_llvm_insertvalue(i, n + 1 + i, i + 1)

\* The block of the struct_construct callable over n fields (mod.rs:150-163).
struct_construct_body(n) ==
    <<op_llvm_struct(n)>> \o [i \in 1..n |-> insert_field(i - 1, n)]
        \o <<op_return(<<2 * n + 1>>)>>

create_libfunc_struct_construct(func_decl) ==
    /\ Take(func_decl, {"struct_construct"})
    /\ LET id == normalize_func_name(func_decl.debug_name)
           a == type_arg(func_decl, 1)
           arg_type == a.ty
       IN  IF a.err # "none" THEN Abort(a.err)
           ELSE IF get_field_types(arg_type) = <<>> THEN Abort("InvalidGenericArgs")
           ELSE LET args == get_field_types(arg_type)[1]
                    return_type == StructTy(args)
                    function_type == create_fn_signature(args, <<return_type>>)
                    func == op_func(id, function_type, struct_construct_body(Len(args)))
                IN  /\ Continue
                    /\ Emit(id, func,
                            FunctionDef(get_field_sierra_types(arg_type)[1], <<arg_type>>))

\* The block of the store_temp / rename callable (mod.rs:220-229).
store_temp_body == <<op_return(<<1>>)>>

create_libfunc_store_temp(func_decl) ==
    /\ Take(func_decl, {"store_temp", "rename"})
    /\ LET id == normalize_func_name(func_decl.debug_name)
           a == type_arg(func_decl, 1)
           arg_type == a.ty
       IN  IF a.err # "none" THEN Abort(a.err)
           ELSE LET args == <<get_type(arg_type)>>
                    func == op_func(id, create_fn_signature(args, args), store_temp_body)
                IN  /\ Continue
                    /\ Emit(id, func, FunctionDef(<<arg_type>>, <<arg_type>>))

\* The block of the dup callable: the argument, two times (mod.rs:282-298).
\* (Variant: the argument is returned once.)
dup_body_once == <<op_return(<<1>>)>>
dup_body == <<op_return(<<1, 1>>)>>

create_libfunc_dup(func_decl) ==
    /\ Take(func_decl, {"dup"})
    /\ LET id == normalize_func_name(func_decl.debug_name)
           a == type_arg(func_decl, 1)
           arg_type == a.ty
       IN  IF a.err # "none" THEN Abort(a.err)
           ELSE LET args == <<get_type(arg_type)>>
                    func == op_func(id, create_fn_signature(args, args \o args), dup_body)
                IN  /\ Continue
                    /\ Emit(id, func, FunctionDef(<<arg_type>>, <<arg_type, arg_type>>))

\* enum BinaryOp, and the arm of process_libfuncs that passes each one.
BinaryOp == {"Add", "Sub", "Mul", "Div"}
binary_op_of(generic_id) ==
    CASE generic_id = "felt252_add" -> "Add"
      [] generic_id = "felt252_sub" -> "Sub"
      [] generic_id = "felt252_mul" -> "Mul"

\* The block of a felt252 binary operation (mod.rs:341-363): both arguments
\* sign-extended to the double width, the raw operation, felt_modulo.
\* (Variant: the raw double-width result is returned, not reduced.)
felt_binary_op_body_no_modulo(binary_op) ==
    << op_sext(1, FeltWidth, 2 * FeltWidth),
       op_sext(2, FeltWidth, 2 * FeltWidth),
       CASE binary_op = "Add" -> op_add(3, 4, 2 * FeltWidth)
         [] binary_op = "Sub" -> op_sub(3, 4, 2 * FeltWidth)
         [] binary_op = "Mul" -> op_mul(3, 4, 2 * FeltWidth),
       op_return(<<5>>) >>
felt_binary_op_body(binary_op) ==
    << op_sext(1, FeltWidth, 2 * FeltWidth),
       op_sext(2, FeltWidth, 2 * FeltWidth),
       CASE binary_op = "Add" -> op_add(3, 4, 2 * FeltWidth)
         [] binary_op = "Sub" -> op_sub(3, 4, 2 * FeltWidth)
         [] binary_op = "Mul" -> op_mul(3, 4, 2 * FeltWidth),
       op_felt_modulo(5),
       op_return(<<6>>) >>

create_libfunc_felt_binary_op(func_decl, binary_op) ==
    /\ Take(func_decl, {"felt252_add", "felt252_sub", "felt252_mul"})
    /\ LET id == normalize_func_name(func_decl.debug_name)
           sierra_felt_type == Simple(felt_type)
       IN  IF binary_op = "Div" THEN Abort("Unimplemented")
           ELSE LET function_type ==
                        create_fn_signature(<<felt_type, felt_type>>, <<felt_type>>)
                    func == op_func(id, function_type, felt_binary_op_body(binary_op))
                IN  /\ Continue
                    /\ Emit(id, func,
                            FunctionDef(<<sierra_felt_type, sierra_felt_type>>,
                                        <<sierra_felt_type>>))

\* src_type.get_width().unwrap().cmp(&dst_type.get_width().unwrap())
\* (Variant: equal widths are taken as Less.)
width_cmp_le(src_width, dst_width) ==
    IF src_width <= dst_width THEN "Less" ELSE "Greater"
width_cmp(src_width, dst_width) ==
    IF src_width < dst_width THEN "Less"
    ELSE IF src_width = dst_width THEN "Equal" ELSE "Greater"

\* The block of the widening upcast callable (mod.rs:500-504).
upcast_body(src_width, dst_width) == <<op_zext(1, src_width, dst_width), op_return(<<2>>)>>

create_libfunc_upcast(func_decl) ==
    /\ Take(func_decl, {"upcast"})
    /\ LET id == normalize_func_name(func_decl.debug_name)
           src == type_arg(func_decl, 1)
           dst == type_arg(func_decl, 2)
           src_type == get_type(src.ty)
           dst_type == get_type(dst.ty)
       IN  IF src.err # "none" THEN Abort(src.err)
           ELSE IF dst.err # "none" THEN Abort(dst.err)
           ELSE IF get_width(src_type) = <<>> \/ get_width(dst_type) = <<>>
           THEN Abort("InvalidGenericArgs")
           ELSE LET ord == width_cmp(get_width(src_type)[1], get_width(dst_type)[1])
                    func == op_func(id, create_fn_signature(<<src_type>>, <<dst_type>>),
                                    upcast_body(get_width(src_type)[1], get_width(dst_type)[1]))
                IN  IF ord = "Less"
                    THEN Continue /\ Emit(id, func, FunctionDef(<<src.ty>>, <<dst.ty>>))
                    ELSE IF ord = "Equal"
                    THEN Continue /\ UNCHANGED tableVars
                    ELSE Abort("InvalidGenericArgs")

\* The loop ran out of declarations: Ok(()) (mod.rs:94-95).
Finish ==
    /\ status = "running"
    /\ status' = "ok"
    /\ UNCHANGED <<idx, name, error, tableVars, enumVars>>

\* One iteration of the loop of process_libfuncs: the arm of the match.
process_libfuncs ==
    \/ \E func_decl \in DeclsOf(NoOpIds) : no_op(func_decl)
    \/ \E func_decl \in DeclsOf({"felt252_const"}) : create_libfunc_felt_const(func_decl)
    \/ \E func_decl \in DeclsOf({"felt252_add", "felt252_sub", "felt252_mul"}) :
            create_libfunc_felt_binary_op(func_decl, binary_op_of(func_decl.generic_id))
    \/ \E func_decl \in DeclsOf({"dup"}) : create_libfunc_dup(func_decl)
    \/ \E func_decl \in DeclsOf({"struct_construct"}) :
            create_libfunc_struct_construct(func_decl)
    \/ \E func_decl \in DeclsOf({"store_temp", "rename"}) :
            create_libfunc_store_temp(func_decl)
    \/ \E func_decl \in DeclsOf({"u8_const"}) : create_libfunc_u8_const(func_decl)
    \/ \E func_decl \in DeclsOf({"u16_const"}) : create_libfunc_u16_const(func_decl)
    \/ \E func_decl \in DeclsOf({"u32_const"}) : create_libfunc_u32_const(func_decl)
    \/ \E func_decl \in DeclsOf({"u64_const"}) : create_libfunc_u64_const(func_decl)
    \/ \E func_decl \in DeclsOf({"u128_const"}) : create_libfunc_u128_const(func_decl)
    \/ \E func_decl \in DeclsOf({"upcast"}) : create_libfunc_upcast(func_decl)
    \/ \E func_decl \in DeclsOf(GenericIds \ RecognizedIds) : unhandled(func_decl)

DispatchInit ==
    /\ idx = 0
    /\ name = ""
    /\ status = "running"
    /\ error = "none"
    /\ functions = EmptyMap
    /\ felt_consts = EmptyMap
    /\ u8_consts = EmptyMap
    /\ u16_consts = EmptyMap
    /\ u32_consts = EmptyMap
    /\ u64_consts = EmptyMap
    /\ u128_consts = EmptyMap
    /\ module = <<>>

EnumIdle ==
    /\ variants = <<>>
    /\ pc = "idle"
    /\ block = -1
    /\ arg = <<>>
    /\ buffer = <<>>
    /\ successor = -1
    /\ passed = <<>>
    /\ init_index = -1
    /\ init_payload = -1

Init == DispatchInit /\ EnumIdle

Next == process_libfuncs \/ Finish

Spec == Init /\ [][Next]_vars

(***************************************************************************)
(* Enums (src/libfuncs/enum.rs).  build_init and build_match emit code     *)
(* into the entry block of a libfunc; here that code is executed on a      *)
(* byte-addressed buffer.  A byte is a number in 0..255, a buffer is a     *)
(* sequence of bytes (offset o is element o + 1), integers are stored      *)
(* little-endian.                                                          *)
(***************************************************************************)
\* Layout of an integer type: the bytes that hold its bits, aligned to its size.
size_of(ty) == (ty.width + 7) \div 8
align_of(ty) == size_of(ty)

round_up(x, a) == ((x + a - 1) \div a) * a

\* Bits of the discriminant of n variants: the smallest width that holds
\* n - 1, at least one bit.
RECURSIVE tag_bits_from(_, _)
tag_bits_from(n, b) == IF Pow2(b) >= n THEN b ELSE tag_bits_from(n, b + 1)
tag_bits(n) == tag_bits_from(n, 1)

RECURSIVE MaxOver(_, _)
MaxOver(f, i) == IF i = 0 THEN 0 ELSE Max(f[i], MaxOver(f, i - 1))

\* crate::types::enum::get_type_for_variants : the layout of the whole enum,
\* the discriminant type and, per variant, the payload type and its layout.
get_type_for_variants(vs) ==
    LET tag_ty == IntTy(tag_bits(Len(vs)))
        align == Max(align_of(tag_ty), MaxOver([i \in 1..Len(vs) |-> align_of(vs[i])], Len(vs)))
        size == round_up(size_of(tag_ty), align)
                + round_up(MaxOver([i \in 1..Len(vs) |-> size_of(vs[i])], Len(vs)), align)
    IN  [layout |-> [size |-> size, align |-> align],
         tag_ty |-> tag_ty,
         variant_tys |-> [i \in 1..Len(vs) |->
                            [ty |-> vs[i],
                             layout |-> [size |-> size_of(vs[i]), align |-> align_of(vs[i])]]]]

\* Little-endian bytes of an integer, and back.
RECURSIVE Pow256(_)
Pow256(n) == IF n = 0 THEN 1 ELSE 256 * Pow256(n - 1)
to_bytes(v, n) == [j \in 1..n |-> (v \div Pow256(j - 1)) % 256]
RECURSIVE from_bytes(_)
from_bytes(bs) == IF bs = <<>> THEN 0 ELSE bs[1] + 256 * from_bytes(Tail(bs))

\* (Variant: the payload is always preceded by padding of its alignment.)
payload_offset_padded(tag_ty, payload_ty) ==
    round_up(size_of(tag_ty), align_of(payload_ty)) + align_of(payload_ty)

\* Offset of the payload in llvm::struct(&[tag_ty, payload_ty], false): the
\* discriminant's end, rounded up to the payload's alignment.
payload_offset(tag_ty, payload_ty) ==
    IF size_of(payload_ty) = 0 THEN size_of(tag_ty)
    ELSE round_up(size_of(tag_ty), align_of(payload_ty))

\* Size of llvm::struct(&[tag_ty, payload_ty], false): the payload's end,
\* rounded up to the larger of the two alignments.
concrete_size(tag_ty, payload_ty) ==
    round_up(payload_offset(tag_ty, payload_ty) + size_of(payload_ty),
             Max(align_of(tag_ty), align_of(payload_ty)))

\* llvm.store of the concrete {tag, payload} struct through the bitcast
\* pointer (enum.rs:139-154): the bytes of the two fields are written, the
\* padding between them is left as it is.
store_concrete(buf, tag, payload, tag_ty, payload_ty) ==
    LET off == payload_offset(tag_ty, payload_ty)
        tb == to_bytes(tag, size_of(tag_ty))
        pb == to_bytes(payload, size_of(payload_ty))
    IN  [j \in 1..Len(buf) |->
            IF j <= size_of(tag_ty) THEN tb[j]
            ELSE IF j > off /\ j <= off + size_of(payload_ty) THEN pb[j - off]
            ELSE buf[j]]

\* The enum type built by the registry: the discriminant, then the rest of
\* the layout's bytes.  llvm.load of it from the buffer (enum.rs:156-165).
load_enum(buf, tag_ty) ==
    [tag |-> from_bytes(SubSeq(buf, 1, size_of(tag_ty))) % Pow2(tag_ty.width),
     bytes |-> SubSeq(buf, size_of(tag_ty) + 1, Len(buf))]

\* llvm.store of a value of the enum type into the buffer (enum.rs:222-231).
store_enum(buf, value, tag_ty) ==
    LET tb == to_bytes(value.tag, size_of(tag_ty))
    IN  [j \in 1..Len(buf) |->
            IF j <= size_of(tag_ty) THEN tb[j] ELSE value.bytes[j - size_of(tag_ty)]]

\* llvm.load of the concrete {tag, payload} struct through the bitcast
\* pointer (enum.rs:281-293).
load_concrete(buf, tag_ty, payload_ty) ==
    LET off == payload_offset(tag_ty, payload_ty)
    IN  [tag |-> from_bytes(SubSeq(buf, 1, size_of(tag_ty))) % Pow2(tag_ty.width),
         payload |-> from_bytes(SubSeq(buf, off + 1, off + size_of(payload_ty)))]

\* The cf::switch operation build_match emits (enum.rs:246-260): the case
\* values 0..n-1, the default block (-1, no operands) and the variant
\* blocks in the order of variant_tys; case k belongs to variant block k.
\* (Variant: the variant blocks are listed in reverse order.)
cf_switch_reversed(n) ==
    [case_values |-> [k \in 1..n |-> k - 1],
     default |-> -1,
     case_blocks |-> [k \in 1..n |-> n - k]]
cf_switch(n) ==
    [case_values |-> [k \in 1..n |-> k - 1],
     default |-> -1,
     case_blocks |-> [k \in 1..n |-> k - 1]]

\* Where the emitted cf::switch goes on a flag: the block of the case whose
\* value is the flag, or the default block when no case has that value.
\* (Variant: the default target is variant block 0.)
switch_default_first(flag, n) == IF flag \in 0..(n - 1) THEN flag ELSE 0
switch(flag, n) ==
    LET sw == cf_switch(n)
        hits == {k \in DOMAIN sw.case_values : sw.case_values[k] = flag}
    IN  IF hits = {} THEN sw.default ELSE sw.case_blocks[CHOOSE k \in hits : TRUE]

\* What variant block i passes to its successor (enum.rs:294-302): the
\* field 1 of the concrete struct.
\* (Variant: field 0, the discriminant, is passed.)
variant_block_br_tag(i, concrete) == [successor |-> i, values |-> <<concrete.tag>>]
variant_block_br(i, concrete) == [successor |-> i, values |-> <<concrete.payload>>]

\* Inputs of the emitted code.
PayloadTypes == {IntTy(8), IntTy(16)}
VariantSets == UNION {[1..n -> PayloadTypes] : n \in 1..MaxVariants}
PayloadValues(ty) == {v \in {0, 7, 255, 263, 65535} : v < Pow2(ty.width)}
\* What a byte of an llvm.alloca holds before anything is stored to it.
UninitBytes == {0, 170}
Allocas(vs) == [1..get_type_for_variants(vs).layout.size -> UninitBytes]
\* Values of the enum type, whatever produced them.
EnumValues(vs) ==
    LET t == get_type_for_variants(vs)
    IN  [tag : 0..(Pow2(t.tag_ty.width) - 1),
         bytes : [1..(t.layout.size - size_of(t.tag_ty)) -> UninitBytes]]

\* build_init, entry block up to the store (enum.rs:94-154): the concrete
\* struct {info.index, argument 0} is stored into the fresh buffer.
build_init_store(index, payload, alloca) ==
    /\ pc = "start"
    /\ LET t == get_type_for_variants(variants)
       IN  buffer' = store_concrete(alloca, index, payload, t.tag_ty,
                                    t.variant_tys[index + 1].ty)
    /\ arg' = <<payload>>
    /\ init_index' = index
    /\ init_payload' = payload
    /\ pc' = "init_stored"
    /\ UNCHANGED <<variants, block, successor, passed, dispatchVars>>

\* build_init, the load of the enum type and the branch (enum.rs:156-167).
build_init_load ==
    /\ pc = "init_stored"
    /\ successor' = 0
    /\ passed' = <<load_enum(buffer, get_type_for_variants(variants).tag_ty)>>
    /\ pc' = "init_done"
    /\ UNCHANGED <<variants, block, arg, buffer, init_index, init_payload, dispatchVars>>

\* build_match, entry block (enum.rs:203-260): the argument is stored into
\* the fresh buffer, its field 0 is extracted and switched on.
build_match_entry(value, alloca) ==
    /\ LET t == get_type_for_variants(variants)
       IN  /\ buffer' = store_enum(alloca, value, t.tag_ty)
           /\ block' = switch(value.tag, Len(t.variant_tys))
    /\ arg' = value
    /\ successor' = -1
    /\ passed' = <<>>
    /\ pc' = IF block' = -1 THEN "default" ELSE "variant"
    /\ UNCHANGED <<variants, init_index, init_payload, dispatchVars>>

\* enum_match on the value an enum_init passed on.
MatchInitResult ==
    /\ pc = "init_done"
    /\ \E alloca \in Allocas(variants) : build_match_entry(passed[1], alloca)

\* enum_match on a value of the enum type that no enum_init of this enum built.
MatchAnyValue ==
    /\ pc = "start"
    /\ \E value \in EnumValues(variants), alloca \in Allocas(variants) :
            build_match_entry(value, alloca)

\* build_match, default block (enum.rs:262-276): cf.assert of a false
\* constant, "Invalid enum tag.", then llvm.unreachable.
default_block ==
    /\ pc = "default"
    /\ pc' = "aborted"
    /\ UNCHANGED <<variants, block, arg, buffer, successor, passed, init_index,
                   init_payload, dispatchVars>>

\* build_match, variant block i (enum.rs:278-303).
variant_block ==
    /\ pc = "variant"
    /\ LET t == get_type_for_variants(variants)
           concrete == load_concrete(buffer, t.tag_ty, t.variant_tys[block + 1].ty)
           br == variant_block_br(block, concrete)
       IN  /\ successor' = br.successor
           /\ passed' = br.values
    /\ pc' = "done"
    /\ UNCHANGED <<variants, block, arg, buffer, init_index, init_payload, dispatchVars>>

InitEnum ==
    /\ DispatchInit
    /\ variants \in VariantSets
    /\ pc = "start"
    /\ block = -1
    /\ arg = <<>>
    /\ buffer = <<>>
    /\ successor = -1
    /\ passed = <<>>
    /\ init_index = -1
    /\ init_payload = -1

\* enum_init of variant index on a payload of that variant's type.
InitValue ==
    \E index \in 0..(Len(variants) - 1) :
        \E payload \in PayloadValues(variants[index + 1]), alloca \in Allocas(variants) :
            build_init_store(index, payload, alloca)

NextEnum ==
    \/ InitValue
    \/ build_init_load
    \/ MatchInitResult
    \/ MatchAnyValue
    \/ default_block
    \/ variant_block

SpecEnum == InitEnum /\ [][NextEnum]_vars

(***************************************************************************)
(* Properties.                                                             *)
(***************************************************************************)

\* C1: round trip.  When enum_match runs on the value that enum_init(i, p)
\* passed on, it never enters the default block, and the variant block it
\* enters branches to successor i and passes exactly the payload p.
C1_RoundTrip ==
    init_index >= 0 =>
        /\ pc \notin {"default", "aborted"}
        /\ pc = "variant" => block = init_index
        /\ pc = "done" => successor = init_index /\ passed = <<init_payload>>

C1_Witness ==
    /\ pc = "done"
    /\ init_index = 2
    /\ variants[3] = IntTy(16)
    /\ variants[1] = IntTy(8)
    /\ init_payload = 263
    /\ successor = 2
    /\ passed = <<263>>

\* C2: enum_match on a value whose discriminant is outside 0..n-1 takes the
\* default block, which ends in the failed assertion; no variant block is
\* entered, no successor is branched to and nothing is passed on.
C2_InvalidTagIsFatal ==
    (pc \in {"variant", "default", "done", "aborted"}
        /\ arg.tag \notin 0..(Len(variants) - 1))
    => /\ pc \in {"default", "aborted"}
       /\ block = -1
       /\ successor = -1
       /\ passed = <<>>

C2_Witness ==
    /\ pc = "aborted"
    /\ Len(variants) = 3
    /\ arg.tag = 3
    /\ successor = -1

\* C3: a signature, once inserted under a normalized name, keeps its value,
\* and no later callable is emitted under that name (the second instance is
\* an error that aborts the pass).
C3_SignatureNeverOverwritten ==
    [][\A n \in DOMAIN functions :
            /\ functions'[n] = functions[n]
            /\ Len(module') > Len(module) => module'[Len(module')].sym_name # n]_vars

\* The declared upcast names two resolved integer types.
UpcastWidths(func_decl) ==
    LET src == type_arg(func_decl, 1)
        dst == type_arg(func_decl, 2)
    IN  IF src.err = "none" /\ dst.err = "none"
           /\ get_width(src.ty.ty) # <<>> /\ get_width(dst.ty.ty) # <<>>
        THEN <<get_width(src.ty.ty)[1], get_width(dst.ty.ty)[1]>>
        ELSE <<>>

\* Values of an integer type of the given width the callables are tried on.
SampleValues(width) == {v \in {0, 1, 7, 128, 255} : v < Pow2(width)}

\* C4: upcast from a source to a destination integer type.  Source narrower:
\* one callable is appended, it returns its argument's unsigned value, and
\* the signature args = [src], return = [dst] is registered under its name.
\* Equal widths: nothing is emitted or registered and the pass goes on.
\* Source wider: the pass fails with InvalidGenericArgs, nothing registered.
C4_UpcastPolicy ==
    [][\A func_decl \in DeclsOf({"upcast"}) :
        (create_libfunc_upcast(func_decl) /\ UpcastWidths(func_decl) # <<>>) =>
            LET w == UpcastWidths(func_decl)
                id == normalize_func_name(func_decl.debug_name)
            IN  /\ w[1] < w[2] =>
                    /\ status' = "running"
                    /\ module' = Append(module, module'[Len(module')])
                    /\ module'[Len(module')].sym_name = id
                    /\ module'[Len(module')].function_type
                         = [inputs |-> <<IntTy(w[1])>>, results |-> <<IntTy(w[2])>>]
                    /\ \A v \in SampleValues(w[1]) :
                            Call(module'[Len(module')], <<v>>) = <<v>>
                    /\ DOMAIN functions' = DOMAIN functions \cup {id}
                    /\ functions'[id] =
                            FunctionDef(<<types[func_decl.generic_args[1].id]>>,
                                        <<types[func_decl.generic_args[2].id]>>)
                    /\ \A n \in DOMAIN functions \ {id} : functions'[n] = functions[n]
                /\ w[1] = w[2] => status' = "running" /\ UNCHANGED tableVars
                /\ w[1] > w[2] =>
                    /\ status' = "failed"
                    /\ error' = "InvalidGenericArgs"
                    /\ UNCHANGED tableVars]_vars

C4_Witness ==
    /\ name = "upcast"
    /\ status = "running"
    /\ Len(module) = 1
    /\ module[1].function_type = [inputs |-> <<IntTy(8)>>, results |-> <<IntTy(64)>>]
    /\ Call(module[1], <<7>>) = <<7>>
    /\ functions = [n \in {module[1].sym_name} |->
                        FunctionDef(<<types["u8"]>>, <<types["u64"]>>)]

\* (a op b) mod p for the operation a felt252 generic id names.
FeltExpected(generic_id, a, b) ==
    CASE generic_id = "felt252_add" -> (a + b) % Prime
      [] generic_id = "felt252_sub" -> (a - b) % Prime
      [] generic_id = "felt252_mul" -> (a * b) % Prime

\* C5: the callable emitted for felt252_add, felt252_sub or felt252_mul
\* returns, for all canonical operands a and b, the one value (a op b) mod p,
\* which is canonical.
C5_FeltBinaryOp ==
    name \in {"felt252_add", "felt252_sub", "felt252_mul"} =>
        \A a \in 0..(Prime - 1), b \in 0..(Prime - 1) :
            LET r == Call(module[Len(module)], <<a, b>>)
            IN  /\ r = <<FeltExpected(name, a, b)>>
                /\ r[1] \in 0..(Prime - 1)

C5_Witness ==
    /\ name = "felt252_add"
    /\ Call(module[Len(module)], <<Prime - 1, 2>>) = <<1>>
    /\ idx = 2
    /\ module[1].body = felt_binary_op_body("Sub")
    /\ Call(module[1], <<1, 2>>) = <<Prime - 1>>

\* C6: an instance that requests felt252 division makes the pass fail with
\* Unimplemented.
C6_DivisionUnimplemented ==
    name = "felt252_div" => status = "failed" /\ error = "Unimplemented"

ConstIds == {"felt252_const", "u8_const", "u16_const", "u32_const", "u64_const",
             "u128_const"}

\* The constant table a constant builder writes.
const_table(generic_id) ==
    CASE generic_id = "felt252_const" -> felt_consts
      [] generic_id = "u8_const" -> u8_consts
      [] generic_id = "u16_const" -> u16_consts
      [] generic_id = "u32_const" -> u32_consts
      [] generic_id = "u64_const" -> u64_consts
      [] generic_id = "u128_const" -> u128_consts

\* The step is the constant builder of func_decl.
ConstStep(func_decl) ==
    CASE func_decl.generic_id = "felt252_const" -> create_libfunc_felt_const(func_decl)
      [] func_decl.generic_id = "u8_const" -> create_libfunc_u8_const(func_decl)
      [] func_decl.generic_id = "u16_const" -> create_libfunc_u16_const(func_decl)
      [] func_decl.generic_id = "u32_const" -> create_libfunc_u32_const(func_decl)
      [] func_decl.generic_id = "u64_const" -> create_libfunc_u64_const(func_decl)
      [] func_decl.generic_id = "u128_const" -> create_libfunc_u128_const(func_decl)

\* C7: a constant builder accepts exactly the instances with one literal
\* generic argument; it then inserts the literal into its own table under
\* the normalized name and changes nothing else.  Any other argument list
\* fails with InvalidGenericArgs and inserts nothing.
C7_ConstBuilders ==
    [][\A func_decl \in DeclsOf(ConstIds) :
        ConstStep(func_decl) =>
            IF Len(func_decl.generic_args) = 1 /\ func_decl.generic_args[1].kind = "Value"
            THEN /\ status' = "running"
                 /\ const_table(func_decl.generic_id)' =
                        Insert(const_table(func_decl.generic_id),
                               normalize_func_name(func_decl.debug_name),
                               to_string(func_decl.generic_args[1].value))
                 /\ \A other \in ConstIds \ {func_decl.generic_id} :
                        const_table(other)' = const_table(other)
                 /\ UNCHANGED <<functions, module>>
            ELSE /\ status' = "failed"
                 /\ error' = "InvalidGenericArgs"
                 /\ UNCHANGED tableVars]_vars

\* C8: a step that takes an instance of a generic id the match does not
\* recognize leaves the signature table, the constant tables and the module
\* as they are, and the pass is still running, so that it can take the next
\* instance or finish with Ok.
C8_UnrecognizedIsNoOp ==
    [][(idx' = idx + 1 /\ name' \notin RecognizedIds) =>
            /\ status' = "running"
            /\ error' = "none"
            /\ UNCHANGED tableVars]_vars

C8_Witness ==
    /\ name = "enum_match"
    /\ idx = 1
    /\ status = "ok"
    /\ functions = EmptyMap
    /\ module = <<>>

\* C9: fail-fast.  The step in which a builder fails leaves the pass failed
\* with the tables and the module as they were; a failed pass takes no
\* further step, and a pass that returns Ok has seen no failure.
C9_FailFast ==
    [][/\ error' # "none" => status' = "failed" /\ UNCHANGED tableVars
       /\ status = "failed" => UNCHANGED dispatchVars
       /\ status' = "ok" => error' = "none"]_vars

C9_Witness ==
    /\ status = "failed"
    /\ error = "InvalidGenericArgs"
    /\ idx = 2
    /\ Len(module) = 1

\* Argument tuples the struct_construct callable is tried on.
StructArgs(n) == [1..n -> {3, 5}]

\* C10: struct_construct over a composite type of N fields emits a callable
\* of N arguments whose single result has field k equal to argument k, and
\* registers args = the field types in field order, return = [the type].
C10_StructConstruct ==
    [][\A func_decl \in DeclsOf({"struct_construct"}) :
        (/\ create_libfunc_struct_construct(func_decl)
         /\ type_arg(func_decl, 1).err = "none"
         /\ type_arg(func_decl, 1).ty.kind = "Struct") =>
            LET ty == type_arg(func_decl, 1).ty
                n == Len(ty.field_types)
                id == normalize_func_name(func_decl.debug_name)
                func == module'[Len(module')]
            IN  /\ status' = "running"
                /\ module' = Append(module, func)
                /\ func.sym_name = id
                /\ Len(func.function_type.inputs) = n
                /\ \A k \in 1..n : func.function_type.inputs[k] = ty.field_types[k].ty
                /\ \A args \in StructArgs(n) : Call(func, args) = <<args>>
                /\ functions'[id].return_types = <<ty>>
                /\ Len(functions'[id].args) = n
                /\ \A k \in 1..n : functions'[id].args[k] = ty.field_types[k]]_vars

C10_Witness ==
    /\ name = "struct_construct"
    /\ status = "running"
    /\ Len(module) = 1
    /\ Call(module[1], <<3, 5>>) = << <<3, 5>> >>
    /\ functions = [n \in {module[1].sym_name} |->
                        FunctionDef(<<Simple(felt_type), Simple(felt_type)>>,
                                    <<types["Pair"]>>)]

\* Values of a type the dup and store_temp callables are tried on.
ValuesOf(sty) ==
    IF sty.kind = "Simple" THEN SampleValues(sty.ty.width)
    ELSE StructArgs(Len(sty.field_types))

\* The step is the dup or store_temp / rename builder of func_decl.
CopyStep(func_decl) ==
    IF func_decl.generic_id = "dup" THEN create_libfunc_dup(func_decl)
    ELSE create_libfunc_store_temp(func_decl)

\* C11: for a type T and every value v of T, the callable emitted for dup
\* returns exactly the two values v, v and is registered with args = [T],
\* return = [T, T]; the callable emitted for store_temp and for rename
\* returns exactly the one value v and is registered with args = [T],
\* return = [T]; what is emitted for store_temp and for rename is the same.
C11_DupStoreTemp ==
    [][\A func_decl \in DeclsOf({"dup", "store_temp", "rename"}) :
        (CopyStep(func_decl) /\ type_arg(func_decl, 1).err = "none") =>
            LET ty == type_arg(func_decl, 1).ty
                id == normalize_func_name(func_decl.debug_name)
                func == module'[Len(module')]
                copies == IF func_decl.generic_id = "dup" THEN <<1, 2>> ELSE <<1>>
            IN  /\ status' = "running"
                /\ module' = Append(module, func)
                /\ func.sym_name = id
                /\ func.function_type =
                        [inputs |-> <<ty.ty>>, results |-> [c \in DOMAIN copies |-> ty.ty]]
                /\ \A v \in ValuesOf(ty) : Call(func, <<v>>) = [c \in DOMAIN copies |-> v]
                /\ functions'[id] = FunctionDef(<<ty>>, [c \in DOMAIN copies |-> ty])
                /\ func_decl.generic_id # "dup" =>
                        func = op_func(id, create_fn_signature(<<ty.ty>>, <<ty.ty>>),
                                       <<op_return(<<1>>)>>)]_vars

C11_Witness ==
    /\ idx = 2
    /\ status = "running"
    /\ name = "rename"
    /\ Len(module) = 2
    /\ module[1].function_type.inputs = <<types["Mixed"].ty>>
    /\ Len(module[1].function_type.results) = 2
    /\ module[2].function_type.inputs = <<IntTy(8)>>
    /\ Len(module[2].function_type.results) = 1
    /\ Call(module[1], << <<3, 5>> >>) = << <<3, 5>>, <<3, 5>> >>
    /\ Call(module[2], <<255>>) = <<255>>
    /\ module[1].sym_name # module[2].sym_name
    /\ functions[module[1].sym_name] =
            FunctionDef(<<types["Mixed"]>>, <<types["Mixed"], types["Mixed"]>>)
    /\ functions[module[2].sym_name] = FunctionDef(<<types["u8"]>>, <<types["u8"]>>)

\* C12: for the variants of the enum, the overall layout's size is at
\* least the discriminant's size plus the largest payload size and is a
\* multiple of the overall alignment, which is the largest of the
\* discriminant's and the payloads' alignments; the buffer of enum_init and
\* enum_match has that size, and the concrete {discriminant, payload} struct
\* of every variant fits in it.
C12_LayoutHoldsEveryVariant ==
    LET t == get_type_for_variants(variants)
        n == Len(variants)
        aligns == {align_of(t.tag_ty)} \cup {align_of(variants[i]) : i \in 1..n}
    IN  /\ \A i \in 1..n : t.layout.size >= size_of(t.tag_ty) + size_of(variants[i])
        /\ t.layout.size % t.layout.align = 0
        /\ t.layout.align \in aligns
        /\ \A a \in aligns : t.layout.align >= a
        /\ \A i \in 1..n :
                /\ t.variant_tys[i].ty = variants[i]
                /\ t.variant_tys[i].layout.size = size_of(variants[i])
                /\ concrete_size(t.tag_ty, variants[i]) <= t.layout.size
        /\ buffer # <<>> => Len(buffer) = t.layout.size

C12_Witness ==
    /\ pc = "init_stored"
    /\ variants = <<IntTy(8), IntTy(16), IntTy(8)>>
    /\ init_index = 1
    /\ init_payload = 263
    /\ get_type_for_variants(variants).layout = [size |-> 4, align |-> 2]
    /\ Len(buffer) = 4
    /\ buffer[1] = 1
    /\ buffer[3] = 7
    /\ buffer[4] = 1

\* C13: the switch enum_match emits has exactly N + 1 targets, the default
\* block and one block per variant; its case values are 0..N-1 in
\* declaration order and lead to pairwise different blocks; on discriminant
\* i control enters variant block i only, which branches to successor i and
\* passes exactly one value, the payload of variant i held by the argument.
C13_MatchDispatch ==
    LET t == get_type_for_variants(variants)
        n == Len(variants)
        sw == cf_switch(n)
        targets == {sw.default} \cup {sw.case_blocks[k] : k \in 1..n}
    IN  /\ Cardinality(targets) = n + 1
        /\ DOMAIN sw.case_values = 1..n
        /\ DOMAIN sw.case_blocks = 1..n
        /\ \A k \in 1..n : sw.case_values[k] = k - 1
        /\ \A k, l \in 1..n : sw.case_blocks[k] = sw.case_blocks[l] => k = l
        /\ pc = "default" => arg.tag \notin 0..(n - 1)
        /\ pc = "variant" => block \in 0..(n - 1) /\ block = arg.tag
        /\ pc = "done" =>
              LET ty == variants[arg.tag + 1]
                  first == payload_offset(t.tag_ty, ty) - size_of(t.tag_ty) + 1
              IN  /\ block = arg.tag
                  /\ successor = arg.tag
                  /\ Len(passed) = 1
                  /\ passed[1] = from_bytes(SubSeq(arg.bytes, first,
                                                   first + size_of(ty) - 1))

C13_Witness ==
    /\ pc = "done"
    /\ init_index = -1
    /\ variants = <<IntTy(16), IntTy(8)>>
    /\ arg.tag = 1
    /\ arg.bytes = <<170, 0, 0>>
    /\ block = 1
    /\ successor = 1
    /\ passed = <<170>>

\* Every entry of the table is an entry of the later table.
StillPresent(table, later) ==
    \A n \in DOMAIN table : n \in DOMAIN later /\ later[n] = table[n]

\* C14: the tables grow monotonically.  Every entry a constant table or the
\* signature table holds before a step is still there, with the same value,
\* after it.
C14_TablesMonotonic ==
    [][/\ StillPresent(functions, functions')
       /\ \A generic_id \in ConstIds :
              StillPresent(const_table(generic_id), const_table(generic_id)')]_vars

\* The callables of the module that carry the name.
CallablesNamed(n) == {k \in 1..Len(module) : module[k].sym_name = n}

\* A name has a signature exactly when one callable carries it.
TablesConsistent ==
    \A n \in DOMAIN functions \cup {module[k].sym_name : k \in 1..Len(module)} :
        n \in DOMAIN functions <=> Cardinality(CallablesNamed(n)) = 1

\* C15: after every step a normalized name has a signature in the table if
\* and only if exactly one callable of the module carries that name; the
\* no-op identities, the constant builders and an upcast between equal
\* widths add neither a signature nor a callable.
C15_SignaturesMatchModule ==
    [][/\ TablesConsistent'
       /\ (idx' = idx + 1 /\ name' \in NoOpIds \cup ConstIds) =>
              UNCHANGED <<functions, module>>
       /\ \A func_decl \in DeclsOf({"upcast"}) :
              (/\ create_libfunc_upcast(func_decl)
               /\ UpcastWidths(func_decl) # <<>>
               /\ UpcastWidths(func_decl)[1] = UpcastWidths(func_decl)[2]) =>
                  UNCHANGED <<functions, module>>]_vars

====
